---- MODULE Spec2Model ----
(***************************************************************************)
(* Knower: DOI -> abstract resolution (knower/AbstractFetcher.py,          *)
(* knower/DOIDownloader.py) and the parser of incomplete-XML abstracts.    *)
(*                                                                         *)
(* A text is a sequence of one-character strings, so that the regular      *)
(* expression XML_PREFIXED_TAG can be evaluated character by character.    *)
(***************************************************************************)
EXTENDS Integers, Sequences, FiniteSets, TLC

\* ------------------------------------------------------------------ texts

\* Characters matched by \s (those of the model's alphabet).
WS == {" ", "\n"}

\* The key "full_text" of the parser's result, as a text.
FULL_TEXT == <<"f", "u", "l", "l", "_", "t", "e", "x", "t">>

Min(S) == CHOOSE x \in S : \A y \in S : x <= y

\* No character of t[a..b] is a line break: "." matches every one of them.
NoNewline(t, a, b) == \A k \in a..b : t[k] # "\n"

\* ------------------------------------------- XML_PREFIXED_TAG, one match
\* Positions are 1-based; 0 stands for "no match".

MinOrZero(S) == IF S = {} THEN 0 ELSE Min(S)

\* The first alternative that matches, in the order the engine tries them.
OrElse(a, b) == IF a # 0 THEN a ELSE b

\* ".+?\>" after the colon at c: the first ">" at c+2 or later that is on the
\* same line (".+?" takes at least one character, lazily).
TagClose(t, c) ==
    MinOrZero({g \in (c + 2)..Len(t) :
                  t[g] = ">" /\ NoNewline(t, c + 1, g - 1)})

CloseAfter(t, c) == IF c = 0 THEN 0 ELSE TagClose(t, c)

\* ".+?:{1}.+?\>" with the first ".+?" starting at x0: the first colon at
\* x0+1 or later, on the same line, after which the tag can be closed; the
\* position of the closing ">".
TagBody(t, x0) ==
    CloseAfter(t, MinOrZero({c \in (x0 + 1)..Len(t) :
                                t[c] = ":" /\ NoNewline(t, x0, c - 1)
                                /\ TagClose(t, c) # 0}))

\* "\<{1}\/?.+?:{1}.+?\>" at p (t[p] = "<"): "\/?" is greedy, so a slash is
\* first taken as the closing-tag slash and only then as a character of ".+?".
TagEnd(t, p) ==
    OrElse(IF p + 1 <= Len(t) /\ t[p + 1] = "/" THEN TagBody(t, p + 2) ELSE 0,
           TagBody(t, p + 1))

\* "\s?" before the tag: greedy, and "<" is no whitespace.
SkipSpace(t, s) == IF s <= Len(t) /\ t[s] \in WS THEN s + 1 ELSE s

TagAt(t, p) == IF p <= Len(t) /\ t[p] = "<" THEN TagEnd(t, p) ELSE 0

\* "\s?" after the tag that ends at g.
TakeSpace(t, g) ==
    IF g = 0 THEN 0
    ELSE IF g + 1 <= Len(t) /\ t[g + 1] \in WS THEN g + 1 ELSE g

\* One iteration of the group "\s?\<...\>\s?" starting at s: the position of
\* the last character it takes.
GroupEnd(t, s) == TakeSpace(t, TagAt(t, SkipSpace(t, s)))

\* "(?: ... )+" starting at s: the greedy repetition of the group; the
\* position of the last character of the match.
RECURSIVE MatchEnd(_, _)
Repeat(t, e) == IF e = 0 THEN 0 ELSE OrElse(MatchEnd(t, e + 1), e)
MatchEnd(t, s) == Repeat(t, GroupEnd(t, s))

\* re.split(XML_PREFIXED_TAG, t) from position pos on: the pieces between
\* the leftmost non-overlapping matches, the empty ones included.
RECURSIVE SplitFrom(_, _)
\* As SplitAt, but the text is split at its first match only (maxsplit=1).
Mut_SplitAt(t, pos, s) ==
    IF s = 0 THEN <<SubSeq(t, pos, Len(t))>>
    ELSE <<SubSeq(t, pos, s - 1), SubSeq(t, MatchEnd(t, s) + 1, Len(t))>>
SplitAt(t, pos, s) ==
    IF s = 0 THEN <<SubSeq(t, pos, Len(t))>>
    ELSE <<SubSeq(t, pos, s - 1)>> \o SplitFrom(t, MatchEnd(t, s) + 1)
SplitFrom(t, pos) ==
    SplitAt(t, pos, MinOrZero({s \in pos..Len(t) : MatchEnd(t, s) # 0}))

re_split(t) == SplitFrom(t, 1)

\* str.strip(): the text without its leading and trailing whitespace.
RECURSIVE LStrip(_)
LStrip(t) == IF t # <<>> /\ Head(t) \in WS THEN LStrip(Tail(t)) ELSE t
RECURSIVE RStrip(_)
RStrip(t) ==
    IF t # <<>> /\ t[Len(t)] \in WS THEN RStrip(SubSeq(t, 1, Len(t) - 1)) ELSE t
Strip(t) == RStrip(LStrip(t))

\* filter(None, pieces): the non-empty pieces, in order.
FilterNonEmpty(pieces) == SelectSeq(pieces, LAMBDA x : x # <<>>)

\* " ".join(abs_list)
RECURSIVE JoinSpace(_)
JoinSpace(abs_list) ==
    IF abs_list = <<>> THEN <<>>
    ELSE IF Len(abs_list) = 1 THEN abs_list[1]
    ELSE abs_list[1] \o <<" ">> \o JoinSpace(Tail(abs_list))

\* str.endswith(".")
EndsWithPeriod(x) == Len(x) > 0 /\ x[Len(x)] = "."

\* As DictSet, but an entry that exists is kept (setdefault).
Mut_DictSet(d, key, val) ==
    [k \in DOMAIN d \cup {key} |-> IF k \in DOMAIN d THEN d[k] ELSE val]

\* abs_dict[key] = val
DictSet(d, key, val) ==
    [k \in DOMAIN d \cup {key} |-> IF k = key THEN val ELSE d[k]]

\* As IsLabelPair, but the label is not tested for a final period.
Mut_IsLabelPair(abs_list, i) == EndsWithPeriod(abs_list[i + 1])

\* The test of the labelling loop on the pair (abs_list[i], abs_list[i+1]).
IsLabelPair(abs_list, i) ==
    EndsWithPeriod(abs_list[i + 1]) /\ ~EndsWithPeriod(abs_list[i])

\* for i in range(len(abs_list) - 1): ...  (i is 1-based here)
RECURSIVE LabelLoop(_, _, _)
LabelLoop(abs_list, i, d) ==
    IF i > Len(abs_list) - 1 THEN d
    ELSE LabelLoop(abs_list, i + 1,
                   IF IsLabelPair(abs_list, i)
                   THEN DictSet(d, abs_list[i], abs_list[i + 1]) ELSE d)

\* As Fragments, but the text is stripped before it is split.
Mut_Fragments(abstract_txt) == FilterNonEmpty(re_split(Strip(abstract_txt)))

\* abs_list of parse_abstract_from_incomplete_XML_str
Fragments(abstract_txt) == FilterNonEmpty(re_split(abstract_txt))

\* abs_dict = {"full_text": " ".join(abs_list)}, then the labelling loop.
Labelled(abs_list) == LabelLoop(abs_list, 1, FULL_TEXT :> JoinSpace(abs_list))

parse_abstract_from_incomplete_XML_str(abstract_txt) ==
    Labelled(Fragments(abstract_txt))


\* --------------------------------------------------------- Python values

PyNone == <<"None">>
PyStr(t) == <<"str", t>>
PyDict(f) == <<"dict", f>>
IsStr(v) == v[1] = "str"
IsDict(v) == v[1] = "dict"
Keys(v) == DOMAIN v[2]

\* bool(v): None, "" and {} are false.
Truthy(v) ==
    CASE v[1] = "None" -> FALSE
      [] v[1] = "str" -> v[2] # <<>>
      [] v[1] = "dict" -> DOMAIN v[2] # {}

EmptyDict == PyDict(<<>>)

\* dict.get(key)
DictGet(f, key) == IF key \in DOMAIN f THEN f[key] ELSE PyNone

\* ------------------------------------------------------- bounded inputs

\* Calls of public methods on one object (as the loop of app.main makes).
MaxCalls == 2

\* Tokens of an input text of the parser, and the number of them.
MaxTokens == 3

T_Tag == <<"<", "j", ":", "p", ">">>
T_CloseTag == <<"<", "/", "j", ":", "p", ">", " ">>
Tokens ==
    { <<"A">>, <<"B", ".">>, <<".">>, FULL_TEXT, T_Tag, T_CloseTag,
      <<"\n">>, <<"<">>, <<":">>, <<">">> }

RECURSIVE TokenTexts(_)
TokenTexts(n) ==
    IF n = 0 THEN {<<>>}
    ELSE LET S == TokenTexts(n - 1)
         IN S \cup {s \o k : s \in S, k \in Tokens}

\* The payload of the specification's end-to-end scenario, and texts with
\* more fragments than MaxTokens tokens give.
T_Intro == <<"<", "j", "a", "t", "s", ":", "p", ">", "I", "n", "t", "r", "o", "<", "/", "j", "a", "t", "s", ":", "p", ">", " ", "B", "o", "d", "y", " ", "t", "e", "x", "t", ".">>
T_Repeat == <<"A", "<", "j", ":", "p", ">", "B", ".", "<", "j", ":", "p", ">", "A", "<", "j", ":", "p", ">", "C", ".">>
T_Heads == <<"A", "<", "j", ":", "p", ">", "B", "<", "j", ":", "p", ">", "C", ".", "<", "j", ":", "p", ">", "D", ".">>
T_Broken == <<"A", "<", "\n", "<", "j", ":", "p", ">", ":", "b", ">", ".">>
T_FullLabel == <<"f", "u", "l", "l", "_", "t", "e", "x", "t", "<", "j", ":", "p", ">", "B", "o", "d", "y", ".">>
T_TagsOnly == <<"<", "j", ":", "p", ">", " ", "<", "/", "j", ":", "p", ">">>
T_Padded == <<" ", "\n", "A", "<", "j", ":", "p", ">", "B", ".", " ">>
Examples ==
    {T_Intro, T_Repeat, T_Heads, T_Broken, T_FullLabel, T_TagsOnly, T_Padded}

ParserInputs == TokenTexts(MaxTokens) \cup Examples

DOIs == {"10.1000/demo", "10.1000/miss"}
\* The DOIs the cache file may hold.
CachedDOIs == {"10.1000/demo"}

Message(abstract) == PyDict("message" :> PyDict("abstract" :> abstract))
NoAbstract == PyDict("message" :> EmptyDict)

\* Payloads of the cache file and of the aggregator's JSON body.
CachePayloads ==
    { EmptyDict, NoAbstract, Message(PyNone) }
    \cup {Message(PyStr(t)) : t \in {<<>>, T_Intro, T_TagsOnly, T_Padded}}

Caches == UNION {[S -> CachePayloads] : S \in SUBSET CachedDOIs}

\* A JSON value that is a list.
PyList == <<"list", <<>>>>

\* self.doi2resp while the constructor has not assigned it.
Unset == <<"unset">>

\* The cache file the constructor reads: no file, a file that is not JSON,
\* or a JSON file whose value is a mapping, null or a list.
CacheFiles ==
    {<<"missing">>, <<"notjson">>}
    \cup {<<"json", PyDict(c)>> : c \in Caches}
    \cup {<<"json", PyNone>>, <<"json", PyList>>}

\* ------------------------------------------------- the network's answers

\* tldextract.extract(landing_resp.url): the landing pages' hosts.
LandingHosts ==
    { [subdomain |-> "linkinghub", domain |-> "elsevier"],
      [subdomain |-> "link", domain |-> "springer"] }

\* The value attribute of the landing page's input element (URL-encoded).
U_WithPII == <<"%", "2", "F", "p", "i", "i", "%", "2", "F", "S", "1", "%", "3", "F", "v">>
U_NoPII == <<"%", "2", "F", "a", "b", "s", "%", "2", "F", "S", "1">>

\* A landing page's HTML: the attributes of its input elements, in order.
LandingPages ==
    { <<"html", <<>>>>,
      <<"html", << <<>> >> >>,
      <<"html", << ("value" :> U_NoPII) >> >>,
      <<"html", << ("value" :> U_WithPII) >> >> }

Element(tag, text) == [tag |-> tag, text |-> text]

\* The publisher's XML: its elements in document order (the root first), or
\* a body that xml.etree cannot parse.
ElsevierBodies ==
    { <<"malformed">>,
      <<"xml", <<Element("root", PyNone), Element("title", PyStr(<<"A">>))>> >>,
      <<"xml", <<Element("root", PyNone), Element("abstract", PyNone),
                 Element("description", PyStr(<<"A", ".">>))>> >>,
      <<"xml", <<Element("abstract", PyStr(<<"A", ".">>))>> >> }

\* The article page's text.
FinalTexts == {T_Padded}

Response(req, host, status_code, text) ==
    [req |-> req, url |-> host, status_code |-> status_code, text |-> text]

NoHost == [subdomain |-> "", domain |-> ""]
NoResponse == Response(<<"none">>, NoHost, 0, <<"none">>)

\* No page: download_via_linkinghub was not called.
NoPage == <<"none">>

LandingResponses(d) ==
    {Response(<<"DOI", d>>, h, 200, html) : h \in LandingHosts, html \in LandingPages}

ElsevierResponses(d) ==
    {Response(<<"ELSEVIER", d>>, NoHost, 200, b) : b \in ElsevierBodies}
    \cup {Response(<<"ELSEVIER", d>>, NoHost, 404, <<"malformed">>)}

FinalResponses(id) ==
    {Response(<<"SCI_DIR", id>>, NoHost, 200, <<"raw", t>>) : t \in FinalTexts}
    \cup {Response(<<"SCI_DIR", id>>, NoHost, 403, <<"raw", <<>>>>)}

\* The aggregator's answers: a JSON body, or one that is not JSON.
CrossrefResponses(d) ==
    {Response(<<"CROSSREF", d>>, NoHost, 200, <<"json", j>>) : j \in CachePayloads}
    \cup {Response(<<"CROSSREF", d>>, NoHost, 404, <<"notjson">>)}

\* The answers to the requests of the methods that download by themselves.
T_Bibtex == <<" ", "@", "a", "{", "x", "}", " ">>
BibtexResponses(d) == {Response(<<"BIBTEX", d>>, NoHost, 200, <<"raw", T_Bibtex>>)}

DirectResponses(d) == {Response(<<"URL", d>>, NoHost, 200, <<"raw", <<>>>>)}

\* Keys of DOI_2_DOMAIN of knower.constants, the table AbstractFetcher imports.
DOI_2_DOMAIN_KEYS == {"CROSSREF", "DOI", "ELSEVIER", "SPRINGER", "TANDF", "WILEY"}

\* ---------------------------------------------- helpers of the downloaders

\* As IsElsevierLanding, but the test of the host is inverted.
Mut_IsElsevierLanding(landing_URL) ==
    ~(landing_URL.domain = "elsevier" /\ landing_URL.subdomain = "linkinghub")

\* landing_URL.domain == "elsevier" and landing_URL.subdomain == "linkinghub"
IsElsevierLanding(landing_URL) ==
    landing_URL.domain = "elsevier" /\ landing_URL.subdomain = "linkinghub"

\* The scan of tree.iter() in download_from_elsevier, from element i on: the
\* root was taken before the loop and is never tested; running off the end
\* makes el None, and el.tag raises AttributeError.
RECURSIVE ScanTree(_, _)
ScanTree(tree, i) ==
    IF i > Len(tree) THEN <<"raise", "AttributeError">>
    ELSE IF tree[i].tag \in {"description", "abstract"} /\ Truthy(tree[i].text)
         THEN <<"return", tree[i].text>>
         ELSE ScanTree(tree, i + 1)

\* urllib.parse.unquote on the escapes of the model's URLs.
RECURSIVE Unquote(_)
Unquote(u) ==
    IF u = <<>> THEN <<>>
    ELSE IF Len(u) >= 3 /\ SubSeq(u, 1, 3) = <<"%", "2", "F">>
         THEN <<"/">> \o Unquote(SubSeq(u, 4, Len(u)))
    ELSE IF Len(u) >= 3 /\ SubSeq(u, 1, 3) = <<"%", "3", "F">>
         THEN <<"?">> \o Unquote(SubSeq(u, 4, Len(u)))
    ELSE <<Head(u)>> \o Unquote(Tail(u))

\* "[^\?]*": the longest prefix of u without a question mark.
RECURSIVE UpToQuery(_)
UpToQuery(u) ==
    IF u = <<>> \/ Head(u) = "?" THEN <<>> ELSE <<Head(u)>> \o UpToQuery(Tail(u))

\* re.findall(r"(?:\/pii\/)([^\?]*)", scidir_URL): the list of the captured
\* groups, cut to its first entry (the only one the code reads).
FindPII(u) ==
    LET S == {i \in 1..(Len(u) - 4) :
                 SubSeq(u, i, i + 4) = <<"/", "p", "i", "i", "/">>}
    IN IF S = {} THEN <<>>
       ELSE <<UpToQuery(SubSeq(u, Min(S) + 5, Len(u)))>>

\* ------------------------------------------------------------------ state

VARIABLES
    cls,           \* the class of the object: AbstractFetcher or DOIDownloader
    debugging,     \* self.debugging
    doi2resp,      \* self.doi2resp, the cache read at construction
    responses,     \* self.responses
    ncalls,        \* calls made so far on the object
    method,        \* the public method of the current (or last) call
    pc,            \* where the current call is
    doi,           \* the argument of the current call
    calls,         \* the downloader methods the current call has invoked
    landing_resp,  \* local of download_redirecting_page
    page,          \* linkinghub_page_contents of download_via_linkinghub
    abstract,      \* local of download_redirecting_page
    pii,           \* local of download_via_linkinghub
    abstract_txt,  \* local of fetch / get_abstract_of
    resume,        \* the pdb.set_trace() the call is suspended in
    outcome,       \* how the last call ended
    raw,           \* the parser alone: its input,
    ppc,           \*   what was applied to it,
    parsed,        \*   parse(raw)
    reparsed,      \*   parse(parse(raw)["full_text"])
    domain,        \* doi2url alone: its argument domain,
    url_doi,       \*   its argument doi,
    kwargs,        \*   its keyword arguments, in insertion order,
    url            \*   and how the call ended

fvars == <<cls, debugging, doi2resp, responses, ncalls, method, pc, doi, calls,
           landing_resp, page, abstract, pii, abstract_txt, resume, outcome>>
pvars == <<raw, ppc, parsed, reparsed>>
uvars == <<domain, url_doi, kwargs, url>>
vars == <<fvars, pvars, uvars>>

\* self.responses before the constructor has assigned it: the attribute
\* does not exist. No request is answered by the response it holds, so
\* get never produces this value.
NoLog == <<NoResponse>>

\* No call was made: no local of a call has a value.
NoCall ==
    /\ ncalls = 0
    /\ method = ""
    /\ doi = ""
    /\ calls = <<>>
    /\ landing_resp = NoResponse
    /\ page = NoPage
    /\ abstract = PyNone
    /\ pii = <<>>
    /\ abstract_txt = PyNone

\* The state of an object after construction.
Constructed ==
    /\ NoCall
    /\ responses = <<>>
    /\ pc = "idle"
    /\ resume = ""
    /\ outcome = <<"none">>

\* read_from_file / read_abstracts in the constructor: the value of a JSON
\* file becomes self.doi2resp; for a missing file (OSError) or a file that
\* is not JSON (ValueError) debug_or_raise raises, and no object exists, or
\* stops in pdb inside the constructor. AbstractFetcher has assigned
\* self.responses = list() before it reads the file (Downloader.__init__),
\* DOIDownloader assigns it after the read: when its read raises or stops,
\* self.responses is not assigned.
read_from_file(file) ==
    IF file[1] = "json"
    THEN /\ doi2resp = file[2]
         /\ responses = <<>>
         /\ pc = "idle" /\ resume = "" /\ outcome = <<"none">>
    ELSE /\ doi2resp = Unset
         /\ responses = (IF cls = "DOIDownloader" THEN NoLog ELSE <<>>)
         /\ IF debugging
            THEN /\ pc = "pdb"
                 /\ resume = (IF file[1] = "missing" THEN "read_os" ELSE "read_value")
                 /\ outcome = <<"none">>
            ELSE /\ pc = "dead"
                 /\ resume = ""
                 /\ outcome = <<"raised", IF file[1] = "missing"
                                          THEN "FileNotFoundError"
                                          ELSE "JSONDecodeError">>

ParserIdle == raw = <<>> /\ ppc = "off" /\ parsed = <<>> /\ reparsed = <<>>

UrlIdle == domain = <<>> /\ url_doi = <<>> /\ kwargs = <<>> /\ url = <<"off">>

Init ==
    /\ cls \in {"AbstractFetcher", "DOIDownloader"}
    /\ debugging \in BOOLEAN
    /\ NoCall
    /\ \E file \in CacheFiles : read_from_file(file)
    /\ ParserIdle
    /\ UrlIdle

\* ------------------------------------------------------- leaving a step

\* The call goes on at the given place.
Goto(label) == pc' = label /\ resume' = "" /\ outcome' = <<"none">>

\* pdb.set_trace(): the call stops in the debugger at the given place.
Suspend(site) == pc' = "pdb" /\ resume' = site /\ outcome' = <<"none">>

Return(v) == pc' = "idle" /\ resume' = "" /\ outcome' = <<"returned", v>>

\* An exception that nothing catches leaves the call.
RaiseOut(err) == pc' = "idle" /\ resume' = "" /\ outcome' = <<"raised", err>>

\* The stops of debug_or_raise inside the constructor (read_from_file).
ConstructorSites == {"read_os", "read_value"}

\* An exception leaves the constructor: no object exists.
NoObject(err) == pc' = "dead" /\ resume' = "" /\ outcome' = <<"raised", err>>

\* As debug_or_raise, but with the test of the flag inverted.
Mut_debug_or_raise(an_err, site) ==
    IF ~debugging THEN Suspend(site) ELSE RaiseOut(an_err)

\* Debuggable.debug_or_raise: raise, or stop in pdb (debug) when debugging.
debug_or_raise(an_err, site) ==
    IF debugging THEN Suspend(site) ELSE RaiseOut(an_err)

\* An exception reaching the first try block of fetch:
\* except (AttributeError, KeyError, TypeError) as err: debug_or_raise.
InFetchTry(err) ==
    IF err \in {"AttributeError", "KeyError", "TypeError"}
    THEN debug_or_raise(err, "fetch_258")
    ELSE RaiseOut(err)

\* As get, but the log keeps the last response only.
Mut_get(r) == responses' = <<r>>

\* Downloader.get: the session returns a response, which is appended to
\* self.responses and returned.
get(r) == responses' = Append(responses, r)

\* ------------------------------------------------ AbstractFetcher.fetch

\* As HasCachedAbstract, but "abstract" is looked up in the payload itself.
Mut_HasCachedAbstract(resp_json) ==
    /\ Truthy(resp_json)
    /\ "message" \in Keys(resp_json)
    /\ "abstract" \in Keys(resp_json)

\* The test of fetch on the cached payload.
HasCachedAbstract(resp_json) ==
    /\ Truthy(resp_json)
    /\ "message" \in Keys(resp_json)
    /\ "abstract" \in Keys(resp_json[2]["message"])

CachedAbstract(resp_json) == resp_json[2]["message"][2]["abstract"]

\* An exception that leaves download_redirecting_page, download_from_elsevier
\* or download_via_linkinghub: in a call of fetch it reaches the first try
\* block of fetch, in a call of the method by itself it leaves the call.
Propagate(err) == IF method = "fetch" THEN InFetchTry(err) ELSE RaiseOut(err)

\* download_redirecting_page returns a value: fetch reads its .text, which
\* a str, a dict and None do not have; called by itself the method returns
\* the value.
ReturnFromRedirectingPage(v) ==
    IF method = "fetch" THEN InFetchTry("AttributeError") ELSE Return(v)

\* fetch, up to its first request: the cache lookup.
Fetch(d) ==
    /\ pc = "idle" /\ cls = "AbstractFetcher" /\ ncalls < MaxCalls
    /\ ncalls' = ncalls + 1
    /\ method' = "fetch"
    /\ doi' = d
    /\ landing_resp' = NoResponse
    /\ page' = NoPage
    /\ abstract' = PyNone
    /\ pii' = <<>>
    /\ IF ~IsDict(doi2resp)
       THEN \* self.doi2resp.get(doi) of None or of a list, outside the try
            /\ abstract_txt' = PyNone
            /\ calls' = <<>>
            /\ RaiseOut("AttributeError")
       ELSE
       LET resp_json == DictGet(doi2resp[2], d)
       IN IF HasCachedAbstract(resp_json)
          THEN /\ calls' = <<>>
               /\ IF IsStr(CachedAbstract(resp_json))
                  THEN /\ abstract_txt' = PyStr(Strip(CachedAbstract(resp_json)[2]))
                       /\ Goto("parse")
                  ELSE /\ abstract_txt' = PyNone
                       /\ InFetchTry("AttributeError")
          ELSE /\ abstract_txt' = PyNone
               /\ calls' = <<"download_redirecting_page">>
               /\ Goto("landing")
    /\ UNCHANGED <<cls, debugging, doi2resp, responses, pvars, uvars>>

\* A call of a public method other than fetch and get_abstract_of, up to
\* its first statement that waits or stops: no local has a value yet.
Call(m, d, first) ==
    /\ pc = "idle" /\ ncalls < MaxCalls
    /\ ncalls' = ncalls + 1
    /\ method' = m
    /\ doi' = d
    /\ calls' = <<>>
    /\ landing_resp' = NoResponse
    /\ abstract' = PyNone
    /\ pii' = <<>>
    /\ abstract_txt' = PyNone
    /\ Goto(first)
    /\ UNCHANGED <<cls, debugging, doi2resp, responses, pvars, uvars>>

\* download_redirecting_page called by itself.
DownloadRedirectingPage(d) ==
    /\ cls = "AbstractFetcher"
    /\ Call("download_redirecting_page", d, "landing")
    /\ page' = NoPage

\* download_from_elsevier called by itself.
DownloadFromElsevier(d) ==
    /\ cls = "AbstractFetcher"
    /\ Call("download_from_elsevier", d, "elsevier")
    /\ page' = NoPage

\* download_via_linkinghub called by itself, on the contents of a page.
DownloadViaLinkinghub(linkinghub_page_contents) ==
    /\ cls = "AbstractFetcher"
    /\ Call("download_via_linkinghub", "", "linkinghub")
    /\ page' = linkinghub_page_contents

\* download_redirecting_page: the request of the landing page and the test
\* of the host it resolved to.
DownloadLanding ==
    /\ pc = "landing"
    /\ \/ /\ debug_or_raise("RequestException", "get_landing")
          /\ UNCHANGED <<responses, landing_resp, page, calls>>
       \/ \E r \in LandingResponses(doi) :
             /\ get(r)
             /\ landing_resp' = r
             /\ IF IsElsevierLanding(r.url)
                THEN /\ Goto("elsevier")
                     /\ calls' = Append(calls, "download_from_elsevier")
                     /\ UNCHANGED page
                ELSE /\ Goto("linkinghub")
                     /\ calls' = Append(calls, "download_via_linkinghub")
                     /\ page' = r.text
    /\ UNCHANGED <<cls, debugging, method, doi2resp, ncalls, doi, abstract, pii,
                   abstract_txt, pvars, uvars>>

\* download_from_elsevier returns a value: called by itself the method
\* returns it; download_redirecting_page returns a true one and passes the
\* text of the landing page to download_via_linkinghub after a false one.
ReturnFromElsevier(v) ==
    IF method = "download_from_elsevier"
    THEN Return(v) /\ UNCHANGED <<abstract, calls, page>>
    ELSE /\ abstract' = v
         /\ IF Truthy(v)
            THEN ReturnFromRedirectingPage(v) /\ UNCHANGED <<calls, page>>
            ELSE /\ Goto("linkinghub")
                 /\ calls' = Append(calls, "download_via_linkinghub")
                 /\ page' = landing_resp.text

\* download_from_elsevier: its request and the scan of the answer.
DownloadElsevier ==
    /\ pc = "elsevier"
    /\ IF "ELSEVIER" \notin DOI_2_DOMAIN_KEYS
       THEN Propagate("KeyError") /\ UNCHANGED <<responses, abstract, calls, page>>
       ELSE
       \/ /\ debug_or_raise("RequestException", "get_elsevier")
          /\ UNCHANGED <<responses, abstract, calls, page>>
       \/ \E r \in ElsevierResponses(doi) :
             /\ get(r)
             /\ IF r.status_code # 200
                THEN ReturnFromElsevier(PyNone)
                ELSE IF r.text[1] = "malformed"
                THEN RaiseOut("ParseError") /\ UNCHANGED <<abstract, calls, page>>
                ELSE LET found == ScanTree(r.text[2], 2)
                     IN IF found[1] = "raise"
                        THEN Propagate(found[2]) /\ UNCHANGED <<abstract, calls, page>>
                        ELSE ReturnFromElsevier(found[2])
    /\ UNCHANGED <<cls, debugging, method, doi2resp, ncalls, doi, landing_resp, pii,
                   abstract_txt, pvars, uvars>>

\* download_via_linkinghub, up to its request: the input element of the
\* page, its value, the PII in it, and the pdb.set_trace() before the
\* request.
LinkingHub ==
    /\ pc = "linkinghub"
    /\ LET inputs == page[2]
       IN IF inputs = <<>>
          THEN debug_or_raise("AttributeError", "lh_219") /\ UNCHANGED pii
          ELSE IF "value" \notin DOMAIN inputs[1]
          THEN Propagate("KeyError") /\ UNCHANGED pii
          ELSE LET scidir_URL == Unquote(inputs[1]["value"])
                   found_PII == FindPII(scidir_URL)
               IN IF found_PII = <<>>
                  THEN debug_or_raise("AssertionError", "lh_237")
                       /\ UNCHANGED pii
                  ELSE pii' = found_PII[1] /\ Suspend("lh_231")
    /\ UNCHANGED <<cls, debugging, method, doi2resp, responses, ncalls, doi, calls,
                   landing_resp, page, abstract, abstract_txt, pvars, uvars>>

\* download_via_linkinghub returns a value: called by itself the method
\* returns it; download_redirecting_page stops at pdb.set_trace() on a
\* false one and returns the other ones.
AfterLinkingHub(returned) ==
    IF method = "download_via_linkinghub"
    THEN Return(returned)
    ELSE IF Truthy(returned)
    THEN ReturnFromRedirectingPage(returned)
    ELSE Suspend("rp_193")

ReturnedByLinkingHub(returned) ==
    /\ abstract' = (IF method = "download_via_linkinghub" THEN abstract ELSE returned)
    /\ AfterLinkingHub(returned)

\* download_via_linkinghub, its request of the article page.
DownloadFinal ==
    /\ pc = "final"
    /\ \/ /\ debug_or_raise("RequestException", "get_final")
          /\ UNCHANGED <<responses, abstract>>
       \/ \E r \in FinalResponses(pii) :
             /\ get(r)
             /\ IF r.status_code # 200
                THEN debug_or_raise("AssertionError", "lh_237")
                     /\ UNCHANGED abstract
                ELSE ReturnedByLinkingHub(
                         PyDict(parse_abstract_from_incomplete_XML_str(r.text[2])))
    /\ UNCHANGED <<cls, debugging, method, doi2resp, ncalls, doi, calls,
                   landing_resp, page, pii, abstract_txt, pvars, uvars>>

\* assert abstract; return abstract
AssertAndReturn(result) ==
    IF Truthy(result)
    THEN Return(result)
    ELSE debug_or_raise("AssertionError", "parse_assert")

\* As WriteBack, but the abstract is stored in the cache under its DOI.
Mut_WriteBack(cache, d, txt) == PyDict((d :> Message(txt)) @@ cache[2])

\* self.doi2resp after the second try block: adding the abstract to the
\* cache is left as a TODO, the cache stays as it was.
WriteBack(cache, d, txt) == cache

\* The second try block of fetch and of get_abstract_of: parse, assert,
\* return.
Parse ==
    /\ pc = "parse"
    /\ AssertAndReturn(PyDict(parse_abstract_from_incomplete_XML_str(abstract_txt[2])))
    /\ doi2resp' = WriteBack(doi2resp, doi, abstract_txt)
    /\ UNCHANGED <<cls, debugging, method, responses, ncalls, doi, calls,
                   landing_resp, page, abstract, pii, abstract_txt, pvars, uvars>>

\* ------------------------------------------- DOIDownloader.get_abstract_of

\* resp_json["message"]["abstract"].strip() in its try block:
\* except (KeyError, TypeError) as e: debug_or_raise.
Extract(resp_json) ==
    IF ~HasCachedAbstract(resp_json)
    THEN debug_or_raise("KeyError", "gao_120") /\ abstract_txt' = PyNone
    ELSE IF ~IsStr(CachedAbstract(resp_json))
    THEN RaiseOut("AttributeError") /\ abstract_txt' = PyNone
    ELSE /\ abstract_txt' = PyStr(Strip(CachedAbstract(resp_json)[2]))
         /\ Goto("parse")

\* get_abstract_of, up to its request: the cache lookup.
GetAbstractOf(d) ==
    /\ pc = "idle" /\ cls = "DOIDownloader" /\ ncalls < MaxCalls
    /\ ncalls' = ncalls + 1
    /\ method' = "get_abstract_of"
    /\ doi' = d
    /\ IF ~IsDict(doi2resp)
       THEN \* self.doi2resp.get(doi) of None or of a list, outside the try
            /\ abstract_txt' = PyNone
            /\ calls' = <<>>
            /\ RaiseOut("AttributeError")
       ELSE
       LET resp_json == DictGet(doi2resp[2], d)
       IN IF ~Truthy(resp_json)
          THEN /\ abstract_txt' = PyNone
               /\ calls' = <<"download_abstract_of">>
               /\ Goto("crossref")
          ELSE calls' = <<>> /\ Extract(resp_json)
    /\ UNCHANGED <<cls, debugging, doi2resp, responses, landing_resp, page,
                   abstract, pii, pvars, uvars>>

\* The stop of debug_or_raise after a failed request of a method whose
\* caller reads an attribute of the response: Downloader.get for an
\* AbstractFetcher, DOIDownloader.download for a DOIDownloader.
RequestSite == IF cls = "DOIDownloader" THEN "dl_94" ELSE "get_alone"

\* download_abstract_of (inside get_abstract_of or by itself) and
\* download_crossref: the request to the aggregator is answered, and the
\* JSON of the answer is extracted from or returned.
DownloadCrossref ==
    /\ pc = "crossref"
    /\ \/ /\ debug_or_raise("RequestException", RequestSite)
          /\ UNCHANGED <<responses, abstract_txt>>
       \/ \E r \in CrossrefResponses(doi) :
             /\ get(r)
             /\ IF r.text[1] = "notjson"
                THEN RaiseOut("JSONDecodeError") /\ UNCHANGED abstract_txt
                ELSE IF method = "get_abstract_of"
                THEN Extract(r.text[2])
                ELSE Return(r.text[2]) /\ UNCHANGED abstract_txt
    /\ UNCHANGED <<cls, debugging, method, doi2resp, ncalls, doi, calls,
                   landing_resp, page, abstract, pii, pvars, uvars>>

\* ------------------------------------- the other methods that download

\* AbstractFetcher.download_crossref / DOIDownloader.download_abstract_of
\* called by themselves: the request to the aggregator is sent.
DownloadJson(d) ==
    /\ Call(IF cls = "AbstractFetcher" THEN "download_crossref"
            ELSE "download_abstract_of", d, "crossref")
    /\ page' = NoPage

\* AbstractFetcher.download_bibtex / DOIDownloader.download_citation_of:
\* the request to the DOI's URL is sent.
DownloadBibtex(d) ==
    /\ Call(IF cls = "AbstractFetcher" THEN "download_bibtex"
            ELSE "download_citation_of", d, "bibtex")
    /\ page' = NoPage

\* The request of download_bibtex / download_citation_of is answered: the
\* BibTeX database of the stripped text of the answer is returned.
BibtexAnswered ==
    /\ pc = "bibtex"
    /\ \/ /\ debug_or_raise("RequestException", RequestSite)
          /\ UNCHANGED responses
       \/ \E r \in BibtexResponses(doi) :
             /\ get(r)
             /\ Return(<<"BibDatabase", Strip(r.text[2])>>)
    /\ UNCHANGED <<cls, debugging, method, doi2resp, ncalls, doi, calls,
                   landing_resp, page, abstract, pii, abstract_txt, pvars, uvars>>

\* Downloader.get / download called by themselves: the request is sent.
Download(d) ==
    /\ Call("download", d, "direct")
    /\ page' = NoPage

\* The request of get / download is answered: the response is appended
\* and returned.
DownloadAnswered ==
    /\ pc = "direct"
    /\ \/ /\ debug_or_raise("RequestException", "get_direct")
          /\ UNCHANGED responses
       \/ \E r \in DirectResponses(doi) :
             /\ get(r)
             /\ Return(<<"Response", r>>)
    /\ UNCHANGED <<cls, debugging, method, doi2resp, ncalls, doi, calls,
                   landing_resp, page, abstract, pii, abstract_txt, pvars, uvars>>

\* ----------------------------------------------------------------- pdb

\* The operator continues from pdb.set_trace(): the code goes on after the
\* place it stopped at. After debug_or_raise that is the statement after
\* the except block, with the locals the try block did not assign.
PdbContinue ==
    /\ pc = "pdb"
    /\ CASE resume \in {"get_landing", "get_elsevier", "get_final"} ->
              \* get returned None: .url / .status_code of None
              Propagate("AttributeError")
         [] resume = "fetch_258" ->
              \* abstract_txt was never assigned
              RaiseOut("UnboundLocalError")
         [] resume = "lh_219" ->
              \* scidir_URL was never assigned
              RaiseOut("UnboundLocalError")
         [] resume = "lh_237" ->
              \* download_via_linkinghub returns None
              AfterLinkingHub(PyNone)
         [] resume = "rp_193" ->
              \* download_redirecting_page returns its false abstract
              ReturnFromRedirectingPage(abstract)
         [] resume = "lh_231" ->
              Goto("final")
         [] resume = "dl_94" ->
              \* download returned None: .json() / .text of None, outside
              \* any try
              RaiseOut("AttributeError")
         [] resume = "gao_120" ->
              \* abstract_txt was never assigned
              RaiseOut("UnboundLocalError")
         [] resume = "parse_assert" ->
              Return(PyNone)
         [] resume = "get_alone" ->
              \* download returned None: .text / .json() of None
              RaiseOut("AttributeError")
         [] resume = "get_direct" ->
              \* get / download returns None
              Return(PyNone)
         [] resume \in ConstructorSites ->
              \* read_from_file returns None, and the constructor goes on:
              \* DOIDownloader assigns self.responses = list() now,
              \* AbstractFetcher has assigned it before the read
              Goto("idle")
    /\ doi2resp' = (IF resume \in ConstructorSites THEN PyNone ELSE doi2resp)
    /\ responses' = (IF resume \in ConstructorSites THEN <<>> ELSE responses)
    /\ UNCHANGED <<cls, debugging, method, ncalls, doi, calls,
                   landing_resp, page, abstract, pii, abstract_txt, pvars, uvars>>

\* The operator quits pdb: bdb.BdbQuit, which no except clause names.
PdbQuit ==
    /\ pc = "pdb"
    /\ IF resume \in ConstructorSites THEN NoObject("BdbQuit") ELSE RaiseOut("BdbQuit")
    /\ UNCHANGED <<cls, debugging, method, doi2resp, responses, ncalls, doi, calls,
                   landing_resp, page, abstract, pii, abstract_txt, pvars, uvars>>

Next ==
    \/ \E d \in DOIs : Fetch(d)
    \/ \E d \in DOIs : DownloadRedirectingPage(d)
    \/ \E d \in DOIs : DownloadFromElsevier(d)
    \/ \E p \in LandingPages : DownloadViaLinkinghub(p)
    \/ DownloadLanding
    \/ DownloadElsevier
    \/ LinkingHub
    \/ DownloadFinal
    \/ \E d \in DOIs : GetAbstractOf(d)
    \/ DownloadCrossref
    \/ Parse
    \/ \E d \in DOIs : DownloadBibtex(d)
    \/ BibtexAnswered
    \/ \E d \in DOIs : DownloadJson(d)
    \/ \E d \in DOIs : Download(d)
    \/ DownloadAnswered
    \/ PdbContinue
    \/ PdbQuit

Spec == Init /\ [][Next]_vars

\* ------------------------------------------------------ the parser alone

\* parse_abstract_from_incomplete_XML_str applied to an input text.
ParseRaw ==
    /\ ppc = "input"
    /\ parsed' = parse_abstract_from_incomplete_XML_str(raw)
    /\ ppc' = "parsed"
    /\ UNCHANGED <<raw, reparsed, fvars, uvars>>

\* The parser applied again, to the full_text of its own result.
Reparse ==
    /\ ppc = "parsed"
    /\ reparsed' = parse_abstract_from_incomplete_XML_str(parsed[FULL_TEXT])
    /\ ppc' = "reparsed"
    /\ UNCHANGED <<raw, parsed, fvars, uvars>>

ParseInit ==
    /\ cls = "AbstractFetcher"
    /\ debugging = FALSE
    /\ doi2resp = EmptyDict
    /\ Constructed
    /\ raw \in ParserInputs
    /\ ppc = "input"
    /\ parsed = <<>>
    /\ reparsed = <<>>
    /\ UrlIdle

ParseNext == ParseRaw \/ Reparse

ParseSpec == ParseInit /\ [][ParseNext]_vars

\* ------------------------------------------------------- doi2url alone

LowerCase == <<"a", "b", "c", "d", "e", "f", "g", "h", "i", "j", "k", "l", "m", "n", "o", "p", "q", "r", "s", "t", "u", "v", "w", "x", "y", "z">>
UpperCase == <<"A", "B", "C", "D", "E", "F", "G", "H", "I", "J", "K", "L", "M", "N", "O", "P", "Q", "R", "S", "T", "U", "V", "W", "X", "Y", "Z">>

\* str.upper() of one character.
UpperChar(c) ==
    IF \E i \in 1..Len(LowerCase) : LowerCase[i] = c
    THEN UpperCase[CHOOSE i \in 1..Len(LowerCase) : LowerCase[i] = c]
    ELSE c

\* As Upper, but the text is left as it is.
Mut_Upper(t) == t

\* domain.upper()
Upper(t) == [i \in 1..Len(t) |-> UpperChar(t[i])]

\* DOI_2_DOMAIN of utilities.py.
DOI_2_DOMAIN ==
    (<<"C", "R", "O", "S", "S", "R", "E", "F">> :> <<"a", "p", "i", ".", "c", "r", "o", "s", "s", "r", "e", "f", ".", "o", "r", "g", "/", "v", "1", "/", "w", "o", "r", "k", "s", "/", "{", "}">>)
    @@ (<<"D", "O", "I">> :> <<"d", "o", "i", ".", "o", "r", "g", "/", "{", "}">>)
    @@ (<<"S", "P", "R", "I", "N", "G", "E", "R">> :> <<"l", "i", "n", "k", ".", "s", "p", "r", "i", "n", "g", "e", "r", ".", "c", "o", "m", "/", "a", "r", "t", "i", "c", "l", "e", "/", "{", "}">>)
    @@ (<<"T", "A", "N", "D", "F">> :> <<"w", "w", "w", ".", "t", "a", "n", "d", "f", "o", "n", "l", "i", "n", "e", ".", "c", "o", "m", "/", "d", "o", "i", "/", "a", "b", "s", "/", "{", "}">>)
    @@ (<<"W", "I", "L", "E", "Y">> :> <<"o", "n", "l", "i", "n", "e", "l", "i", "b", "r", "a", "r", "y", ".", "w", "i", "l", "e", "y", ".", "c", "o", "m", "/", "d", "o", "i", "/", "{", "}">>)

\* template.format(doi): the replacement field "{}" takes the argument.
RECURSIVE Format(_, _)
Format(template, arg) ==
    IF template = <<>> THEN <<>>
    ELSE IF Len(template) >= 2 /\ template[1] = "{" /\ template[2] = "}"
         THEN arg \o SubSeq(template, 3, Len(template))
         ELSE <<Head(template)>> \o Format(Tail(template), arg)

\* str_params = [f"{k}={v}" for k, v in url_params.items()]
StrParams(url_params) ==
    [i \in 1..Len(url_params) |-> url_params[i][1] \o <<"=">> \o url_params[i][2]]

\* "&".join(str_params)
RECURSIVE JoinAmp(_)
JoinAmp(str_params) ==
    IF str_params = <<>> THEN <<>>
    ELSE IF Len(str_params) = 1 THEN str_params[1]
    ELSE str_params[1] \o <<"&">> \o JoinAmp(Tail(str_params))

HTTPS == <<"h", "t", "t", "p", "s", ":", "/", "/">>

\* As Query, but the question mark is always appended.
Mut_Query(str_params) == <<"?">> \o JoinAmp(str_params)

\* The query of as_HTTPS_URL: if str_params: url += "?" + "&".join(str_params)
Query(str_params) ==
    IF str_params # <<>> THEN <<"?">> \o JoinAmp(str_params) ELSE <<>>

\* as_HTTPS_URL with one part.
as_HTTPS_URL(part, url_params) == HTTPS \o part \o Query(StrParams(url_params))

\* doi2url: DOI_2_DOMAIN[domain.upper()] raises KeyError for a key that the
\* table does not hold.
Lookup(key, d, url_params) ==
    IF key \in DOMAIN DOI_2_DOMAIN
    THEN <<"returned", as_HTTPS_URL(Format(DOI_2_DOMAIN[key], d), url_params)>>
    ELSE <<"raised", "KeyError">>

doi2url(d, dom, url_params) == Lookup(Upper(dom), d, url_params)

\* Keyword arguments of a call.
MaxKwargs == 2

K_Mailto == <<"m", "a", "i", "l", "t", "o">>
K_View == <<"v", "i", "e", "w">>
V_Mail == <<"a", "@", "b", ".", "c">>
V_Complete == <<"C", "O", "M", "P", "L", "E", "T", "E">>
KwargPairs == {<<k, v>> : k \in {K_Mailto, K_View}, v \in {V_Mail, V_Complete, <<>>}}

\* Sequences of at most n pairs with different keys.
RECURSIVE KwargSeqs(_)
KwargSeqs(n) ==
    IF n = 0 THEN {<<>>}
    ELSE LET S == KwargSeqs(n - 1)
         IN S \cup {Append(x[1], x[2]) : x \in
                       {y \in S \X KwargPairs :
                           \A i \in 1..Len(y[1]) : y[1][i][1] # y[2][1]}}

D_Crossref == <<"c", "r", "o", "s", "s", "r", "e", "f">>
D_Capital == <<"C", "r", "o", "s", "s", "r", "e", "f">>
D_CROSSREF == <<"C", "R", "O", "S", "S", "R", "E", "F">>
D_Doi == <<"d", "o", "i">>
D_Wiley == <<"W", "i", "L", "e", "Y">>
D_Elsevier == <<"e", "l", "s", "e", "v", "i", "e", "r">>
D_Unknown == <<"c", "r", "o", "s", "s", "-", "r", "e", "f">>
DomainKeys ==
    {D_Crossref, D_Capital, D_CROSSREF, D_Doi, D_Wiley, D_Elsevier, D_Unknown, <<>>}

DOI_Xyz == <<"1", "0", ".", "1", "0", "0", "0", "/", "x", "y", "z">>
DOI_Odd == <<"1", "0", ".", "1", "/", "a", " ", "b", "?", "c", "=", "{", "}", "&", "d">>
UrlDOIs == {DOI_Xyz, DOI_Odd, <<>>}

\* A call of doi2url.
Doi2Url ==
    /\ url = <<"none">>
    /\ url' = doi2url(url_doi, domain, kwargs)
    /\ UNCHANGED <<domain, url_doi, kwargs, fvars, pvars>>

UrlInit ==
    /\ cls = "AbstractFetcher"
    /\ debugging = FALSE
    /\ doi2resp = EmptyDict
    /\ Constructed
    /\ ParserIdle
    /\ domain \in DomainKeys
    /\ url_doi \in UrlDOIs
    /\ kwargs \in KwargSeqs(MaxKwargs)
    /\ url = <<"none">>

UrlNext == Doi2Url

UrlSpec == UrlInit /\ [][UrlNext]_vars

\* ---------------------------------------------------------------- claims

Range(f) == {f[i] : i \in DOMAIN f}

\* A cached payload that is well formed: a mapping with a nested
\* message.abstract string.
WellFormed(payload) ==
    /\ payload[1] = "dict" /\ "message" \in DOMAIN payload[2]
    /\ payload[2]["message"][1] = "dict"
    /\ "abstract" \in DOMAIN payload[2]["message"][2]
    /\ payload[2]["message"][2]["abstract"][1] = "str"

\* The DOI is a key of the cache.
InCache(d) == doi2resp[1] = "dict" /\ d \in DOMAIN doi2resp[2]

\* The call is one of fetch or of get_abstract_of.
Fetching == method \in {"fetch", "get_abstract_of"}

WellFormedHit(d) == InCache(d) /\ WellFormed(doi2resp[2][d])

\* C1: during a call for a DOI that is in the cache with a well-formed
\* payload, no step changes self.responses and no downloader is invoked.
C1_CacheShortCircuit ==
    [][(Fetching' /\ WellFormedHit(doi') /\ (pc # "idle" \/ pc' # "idle"))
          => (responses' = responses /\ calls' = <<>>)]_vars

\* A call on a well-formed cached DOI has returned, on an object whose log
\* already holds the responses of an earlier call.
C1_Witness ==
    /\ Fetching /\ pc = "idle" /\ outcome[1] = "returned"
    /\ WellFormedHit(doi) /\ responses # <<>>

ElsevierHost == [subdomain |-> "linkinghub", domain |-> "elsevier"]

\* A step of a call of fetch that appends an answer of the publisher.
PublisherAnswered ==
    /\ method' = "fetch"
    /\ responses' # responses
    /\ responses'[Len(responses')].req[1] = "ELSEVIER"

\* C2: in a call of fetch the publisher downloader (download_from_elsevier)
\* is invoked only after download_redirecting_page was, and only when the
\* landing page resolved to linkinghub.elsevier: every publisher response a
\* call of fetch appends directly follows the landing response of the same
\* DOI from that host.
C2_FallbackOrder ==
    /\ [](method = "fetch" =>
            \A i \in 1..Len(calls) :
               calls[i] = "download_from_elsevier" =>
                  /\ \E j \in 1..(i - 1) : calls[j] = "download_redirecting_page"
                  /\ landing_resp.url = ElsevierHost)
    /\ [][PublisherAnswered =>
            /\ responses # <<>>
            /\ responses[Len(responses)] = landing_resp
            /\ landing_resp.req = <<"DOI", responses'[Len(responses')].req[2]>>
            /\ landing_resp.url = ElsevierHost]_vars

\* The publisher was asked for a DOI that is not in the cache.
C2_Witness ==
    /\ method = "fetch"
    /\ ~InCache(doi)
    /\ "download_from_elsevier" \in Range(calls)
    /\ responses # <<>> /\ responses[Len(responses)].req[1] = "ELSEVIER"

\* C3: on a cache miss the aggregator is called before any landing-page
\* request: download_redirecting_page is never the first downloader of a
\* call, and a landing response in the log follows an aggregator response
\* for the same DOI.
C3_AggregatorFirst ==
    /\ \A i \in 1..Len(calls) :
          calls[i] = "download_redirecting_page" =>
             \E j \in 1..(i - 1) :
                calls[j] \in {"download_crossref", "download_abstract_of"}
    /\ \A i \in 1..Len(responses) :
          responses[i].req[1] = "DOI" =>
             \E j \in 1..(i - 1) :
                responses[j].req = <<"CROSSREF", responses[i].req[2]>>

\* C4: when the publisher scrape or the linking-hub fallback yielded a
\* non-empty abstract and debugging is off, fetch returns the parse of it.
C4_NetworkSuccess ==
    (method = "fetch" /\ pc = "idle" /\ ~debugging /\ outcome[1] # "none"
        /\ Truthy(abstract)) =>
        /\ outcome[1] = "returned"
        /\ outcome[2] =
              IF IsStr(abstract)
              THEN PyDict(parse_abstract_from_incomplete_XML_str(abstract[2]))
              ELSE abstract

\* The case of C5: debugging off, the DOI is not in the cache, the landing
\* page resolved to an unrecognized host and has no input element, and the
\* call has ended.
Exhausted ==
    /\ method = "fetch" /\ ~debugging
    /\ pc = "idle" /\ outcome[1] # "none"
    /\ ~InCache(doi)
    /\ landing_resp # NoResponse
    /\ landing_resp.url # ElsevierHost
    /\ landing_resp.text[2] = <<>>

\* C5 as stated: exhaustion signals AbstractNotFoundError.
C5_Original == Exhausted => outcome = <<"raised", "AbstractNotFoundError">>

\* C5, amended: exhaustion ends fetch with the AttributeError of the
\* missing input element; fetch returns no value.
C5_Exhaustion == Exhausted => outcome = <<"raised", "AttributeError">>

C5_Witness == Exhausted /\ outcome[1] = "raised" /\ Len(responses) = 1

\* C6: neither fetch nor get_abstract_of returns a mapping that holds only
\* an empty full_text.
C6_EmptyIsFailure ==
    (Fetching /\ outcome[1] = "returned") => outcome[2] # PyDict(FULL_TEXT :> <<>>)

\* C7: the result of parse has the key full_text, and its value is the
\* fragments joined by single spaces, in order.
C7_FullTextIsJoin ==
    ppc # "input" =>
        /\ FULL_TEXT \in DOMAIN parsed
        /\ parsed[FULL_TEXT] = JoinSpace(Fragments(raw))

\* The fragment f[i] has no final period and f[i+1] has one.
Qualifies(f, i) ==
    /\ f[i + 1][Len(f[i + 1])] = "."
    /\ f[i][Len(f[i])] # "."

Max(S) == CHOOSE x \in S : \A y \in S : x >= y

\* The last qualifying pair whose label is the fragment f[i].
LastWithLabel(f, i) ==
    Max({j \in 1..(Len(f) - 1) : Qualifies(f, j) /\ f[j] = f[i]})

\* Every key but full_text is the label of a qualifying pair.
OnlyLabels(f, d) ==
    \A k \in (DOMAIN d) \ {FULL_TEXT} :
        \E i \in 1..(Len(f) - 1) : Qualifies(f, i) /\ f[i] = k

R_Intro ==
    (FULL_TEXT :> <<"I", "n", "t", "r", "o", " ", "B", "o", "d", "y", " ", "t", "e", "x", "t", ".">>)
    @@ (<<"I", "n", "t", "r", "o">> :> <<"B", "o", "d", "y", " ", "t", "e", "x", "t", ".">>)

IntroExample == raw = T_Intro => parsed = R_Intro

\* C8 as stated: every qualifying pair (fragment[i], fragment[i+1]) is an
\* entry of the result.
C8_Original ==
    ppc # "input" =>
        /\ \A i \in 1..(Len(Fragments(raw)) - 1) :
              Qualifies(Fragments(raw), i) =>
                 /\ Fragments(raw)[i] \in DOMAIN parsed
                 /\ parsed[Fragments(raw)[i]] = Fragments(raw)[i + 1]
        /\ OnlyLabels(Fragments(raw), parsed)
        /\ IntroExample

\* C8, amended: the label of a qualifying pair is mapped to the body of the
\* last qualifying pair that has this label; no other fragment is a key;
\* the cached payload of the example gives Intro -> "Body text.".
C8_SectionLabels ==
    ppc # "input" =>
        /\ \A i \in 1..(Len(Fragments(raw)) - 1) :
              Qualifies(Fragments(raw), i) =>
                 /\ Fragments(raw)[i] \in DOMAIN parsed
                 /\ parsed[Fragments(raw)[i]] =
                       Fragments(raw)[LastWithLabel(Fragments(raw), i) + 1]
        /\ OnlyLabels(Fragments(raw), parsed)
        /\ IntroExample

\* A label that precedes two different bodies has been parsed.
C8_Witness ==
    /\ ppc = "parsed"
    /\ \E i, j \in 1..(Len(Fragments(raw)) - 1) :
          /\ i < j
          /\ Qualifies(Fragments(raw), i) /\ Qualifies(Fragments(raw), j)
          /\ Fragments(raw)[i] = Fragments(raw)[j]
          /\ Fragments(raw)[i + 1] # Fragments(raw)[j + 1]

\* The text has an embedded tag: "<", at least one character, ":", at least
\* one character, ">", all on one line.
HasTag(t) ==
    \E p, c, g \in 1..Len(t) :
        /\ p + 2 <= c /\ c + 2 <= g
        /\ t[p] = "<" /\ t[c] = ":" /\ t[g] = ">"
        /\ \A k \in (p + 1)..(g - 1) : t[k] # "\n"

\* C9: for an input without embedded tag, full_text is the input and the
\* result has no other key.
C9_RoundTrip ==
    (ppc # "input" /\ ~HasTag(raw)) =>
        /\ DOMAIN parsed = {FULL_TEXT}
        /\ parsed[FULL_TEXT] = raw

\* An input with the characters of a tag, but no tag, has been parsed.
C9_Witness ==
    /\ ppc = "parsed" /\ ~HasTag(raw)
    /\ {"<", ":", ">"} \subseteq Range(raw)

\* C10 as stated: the second pass has no labelled key beyond those of the
\* first.
C10_Original ==
    ppc = "reparsed" => (DOMAIN reparsed) \ {FULL_TEXT} \subseteq DOMAIN parsed

\* C10, amended: for an input without line break, no tag remains in the
\* full_text of the first pass, and the second pass has no labelled key
\* beyond those of the first.
C10_Idempotence ==
    (ppc = "reparsed" /\ "\n" \notin Range(raw)) =>
        /\ ~HasTag(parsed[FULL_TEXT])
        /\ (DOMAIN reparsed) \ {FULL_TEXT} \subseteq DOMAIN parsed

\* An input without line break whose first pass found a label has been
\* parsed twice.
C10_Witness ==
    /\ ppc = "reparsed" /\ "\n" \notin Range(raw)
    /\ HasTag(raw)
    /\ DOMAIN parsed # {FULL_TEXT}
\* Two characters are the same letter, whatever their case.
SameLetter(a, b) ==
    \/ a = b
    \/ \E i \in 1..Len(LowerCase) :
          {a, b} = {LowerCase[i], UpperCase[i]}

\* Two keys are equal when case is ignored.
SameKey(a, b) ==
    /\ Len(a) = Len(b)
    /\ \A i \in 1..Len(a) : SameLetter(a[i], b[i])

\* The keys of the table that the argument domain names.
Named(dom) == {k \in DOMAIN DOI_2_DOMAIN : SameKey(k, dom)}

Called == url[1] \in {"returned", "raised"}

\* The key is matched whatever its case: a call with a key of the table, in
\* any case, ends as the call with the key as the table has it.
CaseIgnored ==
    \A k \in Named(domain) : url = doi2url(url_doi, k, kwargs) /\ url[1] = "returned"

\* C11 as stated: a key that is not in the table makes doi2url fail with a
\* ConfigurationError.
C11_Original ==
    Called =>
        /\ CaseIgnored
        /\ Named(domain) = {} => url = <<"raised", "ConfigurationError">>

\* C11, amended: the key is matched whatever its case, and a key that is
\* not in the table makes doi2url raise KeyError; no URL is returned.
C11_KeyLookup ==
    Called =>
        /\ CaseIgnored
        /\ Named(domain) = {} => url = <<"raised", "KeyError">>

\* doi2url was called with a key that is not in the table.
C11_Witness == Called /\ Named(domain) = {} /\ domain = D_Elsevier

\* The text before the replacement field of a template.
BeforeSlot(template) == SubSeq(template, 1, Len(template) - 2)

\* "?" and the first n pairs, each rendered key=value, joined by "&".
RECURSIVE QueryOf(_, _)
QueryOf(pairs, n) ==
    IF n = 0 THEN <<>>
    ELSE QueryOf(pairs, n - 1) \o (IF n = 1 THEN <<"?">> ELSE <<"&">>)
            \o pairs[n][1] \o <<"=">> \o pairs[n][2]

URL_Xyz == <<"h", "t", "t", "p", "s", ":", "/", "/", "a", "p", "i", ".", "c", "r", "o", "s", "s", "r", "e", "f", ".", "o", "r", "g", "/", "v", "1", "/", "w", "o", "r", "k", "s", "/", "1", "0", ".", "1", "0", "0", "0", "/", "x", "y", "z">>

\* C12: for a known key the result is "https://", the template with the DOI
\* in its slot, and, exactly when there are keyword arguments, "?" and the
\* pairs key=value joined by "&" in insertion order;
\* doi2url("10.1000/xyz", "crossref") is
\* "https://api.crossref.org/v1/works/10.1000/xyz".
C12_UrlResult ==
    Called =>
        /\ \A k \in Named(domain) :
              url = <<"returned",
                      HTTPS \o BeforeSlot(DOI_2_DOMAIN[k]) \o url_doi
                            \o QueryOf(kwargs, Len(kwargs))>>
        /\ (domain = D_Crossref /\ url_doi = DOI_Xyz /\ kwargs = <<>>)
              => url = <<"returned", URL_Xyz>>

\* A URL was built from a DOI with characters of a query and from two
\* keyword arguments.
C12_Witness ==
    /\ url[1] = "returned"
    /\ url_doi = DOI_Odd
    /\ Len(kwargs) = 2

LastResponse == responses[Len(responses)]

\* The current call asked the publisher, and its answer is the last entry
\* of the log.
ScrapeAnswered ==
    /\ "download_from_elsevier" \in Range(calls)
    /\ responses # <<>>
    /\ LastResponse.req = <<"ELSEVIER", doi>>

\* The elements of the tree whose tag is description or abstract.
AbstractElements(tree) ==
    {i \in 1..Len(tree) : tree[i].tag \in {"description", "abstract"}}

\* What the claim has download_from_elsevier do with an answer of status
\* 200 whose body is a tree: the text of the first such element, or None
\* and the next fallback.
ScrapeOfTree(tree) ==
    IF AbstractElements(tree) # {}
    THEN abstract = tree[Min(AbstractElements(tree))].text
    ELSE abstract = PyNone /\ "download_via_linkinghub" \in Range(calls)

\* C13: download_from_elsevier returns the text of the first element named
\* description or abstract when the status is 200; when the status is not
\* 200 or the tree has no such element it returns None without raising,
\* and download_redirecting_page goes on to download_via_linkinghub.
C13_ScrapeResult ==
    ScrapeAnswered =>
        IF LastResponse.status_code # 200
        THEN abstract = PyNone /\ "download_via_linkinghub" \in Range(calls)
        ELSE LastResponse.text[1] = "xml" => ScrapeOfTree(LastResponse.text[2])

\* C14: a request that fails at transport level fails its step only: fetch
\* ends with the RequestException of a request only when no fallback was
\* left, that is after download_via_linkinghub was entered.
C14_TimeoutNotAbort ==
    (method = "fetch" /\ outcome = <<"raised", "RequestException">>)
        => "download_via_linkinghub" \in Range(calls)

\* The places where debug_or_raise stopped in pdb instead of raising.
ErrorSites ==
    {"get_landing", "get_elsevier", "get_final", "fetch_258", "lh_219",
     "lh_237", "dl_94", "gao_120", "parse_assert", "get_alone", "get_direct",
     "read_os", "read_value"}

\* C15: a call of fetch is suspended in pdb only when debugging is true, and only
\* where debug_or_raise took the place of raising an error.
C15_PropagationPolicy ==
    (method = "fetch" /\ pc = "pdb") => (debugging /\ resume \in ErrorSites)

\* A step in which a request failed at transport level.
TransportFailed ==
    \/ outcome' = <<"raised", "RequestException">>
    \/ resume' \in {"get_landing", "get_elsevier", "get_final", "dl_94",
                    "get_alone", "get_direct"}

\* C16: once the constructor has assigned self.responses, every step leaves
\* it as it is or appends one response at its end (the one the landing
\* download returns, when it is that request, and the one a call of get or
\* download by itself returns); a request that fails at transport level
\* appends nothing.
C16_AppendOnly ==
    [][responses # NoLog =>
         /\ \/ responses' = responses
            \/ /\ Len(responses') = Len(responses) + 1
               /\ SubSeq(responses', 1, Len(responses)) = responses
               /\ pc = "landing" => landing_resp' = responses'[Len(responses')]
         /\ TransportFailed => responses' = responses
         /\ (method' = "download" /\ responses' # responses)
               => outcome' = <<"returned", <<"Response", responses'[Len(responses')]>>>>]_vars

\* The log holds the responses of two calls, and the last request failed at
\* transport level.
C16_Witness ==
    /\ Len(responses) >= 3
    /\ ncalls = 2
    /\ outcome = <<"raised", "RequestException">>

\* C17: no step of a call changes self.doi2resp, which only the
\* constructor assigns, and a call of fetch or get_abstract_of for the DOI
\* of the call before, which went to the network, goes to the network again.
C17_CacheReadOnly ==
    [][/\ doi2resp # Unset => doi2resp' = doi2resp
       /\ (ncalls' = ncalls + 1 /\ Fetching /\ method' = method
              /\ doi' = doi /\ calls # <<>>)
             => calls' # <<>>]_vars

\* Two calls for the same DOI have ended, and each made the first request
\* of a cache miss.
C17_Witness ==
    /\ Fetching /\ pc = "idle" /\ ncalls = 2
    /\ \E i, j \in 1..Len(responses) :
          /\ i < j
          /\ responses[i].req = responses[j].req
          /\ responses[i].req \in {<<"DOI", doi>>, <<"CROSSREF", doi>>}

\* A call of fetch that entered download_via_linkinghub has ended.
FallbackEnded ==
    /\ method = "fetch"
    /\ pc = "idle" /\ outcome[1] # "none"
    /\ "download_via_linkinghub" \in Range(calls)

\* The final request of the fallback was answered with status 200.
FinalSucceeded ==
    /\ LastResponse.req[1] = "SCI_DIR"
    /\ LastResponse.status_code = 200

\* C18: when the landing host is no known publisher the fallback is entered,
\* and it is entered at most once in a call; when its final request
\* succeeds fetch returns the parsed abstract, and when the redirect
\* element or the PII is missing or the final answer is not 200, fetch
\* fails.
C18_LinkingHubStep ==
    /\ Cardinality({i \in 1..Len(calls) : calls[i] = "download_via_linkinghub"}) <= 1
    /\ (pc = "idle" /\ landing_resp # NoResponse /\ landing_resp.url # ElsevierHost)
          => "download_via_linkinghub" \in Range(calls)
    /\ FallbackEnded =>
          IF FinalSucceeded
          THEN outcome = <<"returned", abstract>>
          ELSE outcome[1] = "raised"

\* The keys of the result other than full_text.
Labels(d) == (DOMAIN d) \ {FULL_TEXT}

\* Every label is a fragment without final period, its value is the
\* fragment after the last occurrence of the label before a fragment with
\* final period, and that value ends with a period.
LabelEntries(f, d) ==
    \A k \in Labels(d) :
        /\ k # <<>> /\ k[Len(k)] # "."
        /\ d[k] # <<>> /\ d[k][Len(d[k])] = "."
        /\ \E i \in 1..(Len(f) - 1) :
              /\ f[i] = k /\ f[i + 1] = d[k]
              /\ \A j \in (i + 1)..(Len(f) - 1) :
                    f[j] = k => f[j + 1][Len(f[j + 1])] # "."

\* C19 as stated: the labelled entries are at most the fragments minus
\* one.
C19_Original ==
    ppc # "input" =>
        /\ LabelEntries(Fragments(raw), parsed)
        /\ Cardinality(Labels(parsed)) <= Len(Fragments(raw)) - 1

\* C19, amended: every label is a fragment without final period and its
\* value the period-terminated fragment after its last such occurrence;
\* when there is a fragment, the labelled entries are at most the fragments
\* minus one, and without fragments there is none.
C19_LabelEntries ==
    ppc # "input" =>
        /\ LabelEntries(Fragments(raw), parsed)
        /\ IF Fragments(raw) = <<>>
           THEN Labels(parsed) = {}
           ELSE Cardinality(Labels(parsed)) <= Len(Fragments(raw)) - 1

\* A text of three or more fragments with a labelled entry has been parsed.
C19_Witness ==
    /\ ppc = "parsed"
    /\ Labels(parsed) # {}
    /\ Len(Fragments(raw)) >= 3

\* The places of a call of fetch, in the order the code passes them; a call
\* has ended when it is idle.
Rank ==
    [p \in {"landing", "elsevier", "linkinghub", "pdb", "final", "parse", "idle"} |->
        CASE p = "landing" -> 1
          [] p = "elsevier" -> 2
          [] p = "linkinghub" -> 3
          [] p = "pdb" -> 4
          [] p = "final" -> 5
          [] p = "parse" -> 6
          [] p = "idle" -> 7]

\* The request each place makes.
StageRequest ==
    [p \in {"landing", "elsevier", "final"} |->
        CASE p = "landing" -> "DOI"
          [] p = "elsevier" -> "ELSEVIER"
          [] p = "final" -> "SCI_DIR"]

\* fetch of AbstractFetcher with debugging false.
PlainFetch == method = "fetch" /\ ~debugging

\* A step of a call moves it to a later place: no place is entered twice.
StepForward == (PlainFetch /\ pc # "idle") => Rank[pc'] > Rank[pc]

\* A step adds no response, or the one response of the request of its
\* place.
OneResponse ==
    PlainFetch' =>
        \/ responses' = responses
        \/ /\ pc \in DOMAIN StageRequest
           /\ Len(responses') = Len(responses) + 1
           /\ SubSeq(responses', 1, Len(responses)) = responses
           /\ responses'[Len(responses')].req[1] = StageRequest[pc]

\* C20: with debugging false a call of fetch ends whenever its requests are
\* answered: every step moves it to a later place, it waits for nothing but
\* its requests, and it adds at most the responses of the landing, the
\* publisher and the final request, in this order.
C20_BoundedCascade ==
    /\ [][StepForward /\ OneResponse]_vars
    /\ [](PlainFetch => pc # "pdb")

====
